---- MODULE Spec2Model ----
(***************************************************************************)
(* State-machine model of src/src/pages/AlkanesBalanceExplorer.jsx: the    *)
(* React page component AlkanesBalanceExplorer, its state hooks, its three *)
(* effects, handleSubmit, fetchTokenImages and the aggregation done while  *)
(* rendering the results table.                                            *)
(*                                                                         *)
(* One action is one event of the browser's event loop together with the   *)
(* re-render and the effects that React runs after it: a prop change, a    *)
(* wallet update, an input edit, a form submit, the resolution of an       *)
(* awaited SDK promise.                                                    *)
(***************************************************************************)
EXTENDS Integers, Sequences, FiniteSets, TLC

VARIABLES
  endpoint,       \* useOutletContext().endpoint: the active network
  connected,      \* useLaserEyes().connected
  walletAddress,  \* useLaserEyes().address ("" when the wallet gives none)
  address,        \* useState(''): the search address
  manualAddress,  \* useState(''): the text of the manual input
  alkanes,        \* useState([]): the raw balance records
  loading,        \* useState(false)
  error,          \* useState(null)
  tokenImages,    \* useState({}): cacheKey -> imageUri
  imageLoading,   \* useState({}): cacheKey -> boolean
  fetches,        \* getAlkanesByAddress promises handleSubmit is awaiting
  imageTasks,     \* fetchTokenImages invocations awaiting getAlkanesTokenImage
  tokenList,      \* the aggregated rows of the rendered results table
  last            \* history: the event that led to this state

vars == <<endpoint, connected, walletAddress, address, manualAddress, alkanes,
          loading, error, tokenImages, imageLoading, fetches, imageTasks,
          tokenList, last>>

-----------------------------------------------------------------------------
(* Bounds of the model *)

\* fetchTokenImages invocations that may be suspended at the same time
MaxTasks == 1
\* getAlkanesByAddress calls that may be in flight at the same time
MaxFetches == 2
\* longest record sequence given to the aggregation on its own
MaxLen == 3
\* longest address typed in the searches of any typed address
MaxAddrLen == 3

-----------------------------------------------------------------------------
(* Values *)

\* JavaScript null, as the value of the error state
null == "<null>"
\* a property that is undefined (result.message, token.symbol)
undefined == "<undefined>"
\* a token without tokenId
NoTokenId == [absent |-> TRUE]

Networks == {"mainnet", "testnet"}
ManualInputs == {"", "bc1qcustom", "xyz123"}
WalletAddresses == {"", "tb1qwallet"}
Messages == {undefined, "rpc down"}

TokenA == [block |-> "2", tx |-> "1"]
TokenB == [block |-> "2", tx |-> "7"]

Rec(id, n, s, a) == [tokenId |-> id, name |-> n, symbol |-> s, amount |-> a]

\* what getAlkanesByAddress may put in result.alkanes: nothing, or two
\* records of one token around a record without tokenId
BalanceLists ==
  { <<>>,
    << Rec(TokenA, "ALPHA", "AL", 150000000), Rec(NoTokenId, "ANON", undefined, 5),
       Rec(TokenA, "ALPHA2", "", 50000000) >> }

\* the outcomes of awaiting getAlkanesByAddress
BalanceOutcomes ==
  [kind : {"success"}, hasAlkanes : {TRUE}, alkanes : BalanceLists, message : {undefined}]
  \cup [kind : {"success"}, hasAlkanes : {FALSE}, alkanes : {<<>>}, message : {undefined}]
  \cup [kind : {"error", "fault"}, hasAlkanes : {FALSE}, alkanes : {<<>>}, message : Messages]

\* the outcomes of awaiting getAlkanesTokenImage: a success with an imageUri,
\* a result that fails the test of line 107 (an error status, or no
\* imageUri), a rejected promise
ImageOutcomes == {"success", "error", "fault"}

EmptyMap == [k \in {} |-> TRUE]

\* { ...m, [k]: v }
Put(m, k, v) == [x \in (DOMAIN m) \cup {k} |-> IF x = k THEN v ELSE m[x]]

\* the sequence without its i-th element
RemoveAt(s, i) == SubSeq(s, 1, i - 1) \o SubSeq(s, i + 1, Len(s))

-----------------------------------------------------------------------------
(* Pure functions of the component *)

\* addr.startsWith(prefix)
startsWith(addr, prefix) ==
  /\ Len(addr) >= Len(prefix)
  /\ SubSeq(addr, 1, Len(prefix)) = prefix

\* a list of prefixes without the regtest prefix bcr
isValidBitcoinAddressWithoutRegtest(addr) ==
  /\ addr # ""
  /\ \/ startsWith(addr, "bc1")
     \/ startsWith(addr, "1")
     \/ startsWith(addr, "3")
     \/ startsWith(addr, "tb1")
     \/ startsWith(addr, "m")
     \/ startsWith(addr, "n")
     \/ startsWith(addr, "2")

\* isValidBitcoinAddress: addr && (addr.startsWith('bc1') || ...)
isValidBitcoinAddress(addr) ==
  /\ addr # ""
  /\ \/ startsWith(addr, "bc1")
     \/ startsWith(addr, "1")
     \/ startsWith(addr, "3")
     \/ startsWith(addr, "bcr")
     \/ startsWith(addr, "tb1")
     \/ startsWith(addr, "m")
     \/ startsWith(addr, "n")
     \/ startsWith(addr, "2")

\* the divisor of line 534
Divisor == 100000000

\* rawAmount / 100000000, kept exact: the integer part and the count of
\* 10^-8 units after the decimal point
Amount(rawAmount) == [units |-> rawAmount \div Divisor, e8 |-> rawAmount % Divisor]

\* `${token.tokenId.block}:${token.tokenId.tx}`
AggregateId(tokenId) == tokenId.block \o ":" \o tokenId.tx

\* token.symbol || '-'
SymbolOrDash(symbol) == IF symbol = undefined \/ symbol = "" THEN "-" ELSE symbol

\* the object aggregatedTokens is a sequence of [id, value] properties in
\* insertion order: every id holds a ":", so none is an array index and
\* Object.values lists the values in the order the ids were first assigned
HasId(obj, id) == \E k \in 1..Len(obj) : obj[k].id = id

\* the value a token's first record puts under its id (lines 521-528)
NewEntry(token) ==
  [tokenId |-> token.tokenId, name |-> token.name,
   symbol |-> SymbolOrDash(token.symbol), amount |-> Amount(0), rawAmount |-> 0]

\* rawAmount = token.amount where the code has +=
AddAmountOverwrites(entry, token) ==
  [entry EXCEPT !.rawAmount = token.amount, !.amount = Amount(token.amount)]

\* the two assignments of lines 532-534
AddAmount(entry, token) ==
  [entry EXCEPT !.rawAmount = entry.rawAmount + token.amount,
                !.amount = Amount(entry.rawAmount + token.amount)]

\* one call of the forEach callback (lines 516-535)
AggregateToken(obj, token) ==
  IF token.tokenId = NoTokenId THEN obj
  ELSE LET id == AggregateId(token.tokenId)
           withId == IF HasId(obj, id) THEN obj
                     ELSE Append(obj, [id |-> id, value |-> NewEntry(token)])
       IN [k \in 1..Len(withId) |->
             IF withId[k].id = id
             THEN [withId[k] EXCEPT !.value = AddAmount(withId[k].value, token)]
             ELSE withId[k]]

RECURSIVE AggregateAll(_, _)
AggregateAll(obj, tokens) ==
  IF tokens = <<>> THEN obj
  ELSE AggregateAll(AggregateToken(obj, Head(tokens)), Tail(tokens))

\* tokenList = Object.values(aggregatedTokens)
Aggregate(tokens) ==
  LET obj == AggregateAll(<<>>, tokens)
  IN [k \in 1..Len(obj) |-> obj[k].value]

\* the rows of the results table: drawn only when
\* !loading && !error && alkanes.length > 0
RenderTable(alk, ld, err) ==
  IF ~ld /\ err = null /\ Len(alk) > 0 THEN Aggregate(alk) ELSE <<>>

\* a cache key made of the tx alone
CacheKeyWithoutNetwork(net, tx) == tx

\* `${endpoint}:${token.tokenId.tx}`
CacheKey(net, tx) == net \o ":" \o tx

\* !tokenImages[cacheKey] is false
Cached(images, key) == key \in DOMAIN images /\ images[key] # ""

\* the imageUri the SDK returns for a token on a network
ImageUri(tokenId, net) == "img/" \o net \o "/" \o tokenId.block \o "/" \o tokenId.tx

\* the first token at or after position from for which the loop of
\* fetchTokenImages awaits an image; 0 when the loop runs to its end
NextFetch(tokens, from, net, images) ==
  LET todo == { j \in from..Len(tokens) :
                  /\ tokens[j].tokenId # NoTokenId
                  /\ ~Cached(images, CacheKey(net, tokens[j].tokenId.tx)) }
  IN IF todo = {} THEN 0 ELSE CHOOSE j \in todo : \A k \in todo : j <= k

\* the second effect without !manualAddress in its condition
WalletEffectIgnoresManual(c, w, a, m) ==
  IF c /\ w # "" /\ a = "" THEN w ELSE a

\* the second effect: the new value of address
WalletEffect(c, w, a, m) ==
  IF c /\ w # "" /\ a = "" /\ m = "" THEN w ELSE a

\* err.message of new Error(message)
ErrorMessage(message) == IF message = undefined THEN "" ELSE message

\* err.message without the fallback text
FetchErrorTextNoFallback(message) == ErrorMessage(message)

\* err.message || "Failed to fetch Alkanes data"
FetchErrorText(message) ==
  IF ErrorMessage(message) = "" THEN "Failed to fetch Alkanes data"
  ELSE ErrorMessage(message)

-----------------------------------------------------------------------------
(* The component as a state machine *)

\* the history record of an event: its name, its input and the part of the
\* state it arrived in that the event may overwrite
Event(op, arg) == [op |-> op, arg |-> arg]

\* every event ends with a render: the table is a function of the new state
Rendered == tokenList' = RenderTable(alkanes', loading', error')

\* the state after the first render and its effects: the first effect
\* resets what is already empty, the second may take the wallet's address
Init ==
  /\ endpoint \in Networks
  /\ connected \in BOOLEAN
  /\ walletAddress \in WalletAddresses
  /\ address = WalletEffect(connected, walletAddress, "", "")
  /\ manualAddress = ""
  /\ alkanes = <<>>
  /\ loading = FALSE
  /\ error = null
  /\ tokenImages = EmptyMap
  /\ imageLoading = EmptyMap
  /\ fetches = <<>>
  /\ imageTasks = <<>>
  /\ tokenList = <<>>
  /\ last = [op |-> "mount"]

\* a first effect that also calls setLoading(false)
NetworkSwitchResetsLoading(n) ==
  /\ n # endpoint
  /\ endpoint' = n
  /\ alkanes' = <<>>
  /\ tokenImages' = EmptyMap
  /\ imageLoading' = EmptyMap
  /\ error' = null
  /\ loading' = FALSE
  /\ last' = [op |-> "NetworkSwitch",
              arg |-> [from |-> endpoint, hadAlkanes |-> alkanes # <<>>,
                       hadError |-> error # null, hadImages |-> tokenImages # EmptyMap]]
  /\ UNCHANGED <<connected, walletAddress, address, manualAddress, fetches, imageTasks>>
  /\ tokenList' = RenderTable(alkanes', loading', error')

\* a first effect that resets the results and the images but not the error
NetworkSwitchKeepsError(n) ==
  /\ n # endpoint
  /\ endpoint' = n
  /\ alkanes' = <<>>
  /\ tokenImages' = EmptyMap
  /\ imageLoading' = EmptyMap
  /\ last' = [op |-> "NetworkSwitch",
              arg |-> [from |-> endpoint, hadAlkanes |-> alkanes # <<>>,
                       hadError |-> error # null, hadImages |-> tokenImages # EmptyMap]]
  /\ UNCHANGED <<connected, walletAddress, address, manualAddress, loading,
                 error, fetches, imageTasks>>
  /\ tokenList' = RenderTable(alkanes', loading', error')

\* the outlet context hands the page another endpoint; the first effect runs
NetworkSwitch(n) ==
  /\ n # endpoint
  /\ endpoint' = n
  /\ alkanes' = <<>>
  /\ tokenImages' = EmptyMap
  /\ imageLoading' = EmptyMap
  /\ error' = null
  /\ last' = Event("NetworkSwitch", [from |-> endpoint, hadAlkanes |-> alkanes # <<>>,
                                         hadError |-> error # null,
                                         hadImages |-> tokenImages # EmptyMap])
  /\ UNCHANGED <<connected, walletAddress, address, manualAddress, loading,
                 fetches, imageTasks>>
  /\ Rendered

\* useLaserEyes reports another connection state; the second effect runs
WalletUpdate(c, w) ==
  /\ <<c, w>> # <<connected, walletAddress>>
  /\ connected' = c
  /\ walletAddress' = w
  /\ address' = WalletEffect(c, w, address, manualAddress)
  /\ last' = Event("WalletUpdate", [address |-> address])
  /\ UNCHANGED <<endpoint, manualAddress, alkanes, loading, error, tokenImages,
                 imageLoading, fetches, imageTasks>>
  /\ Rendered

\* the manual input is enabled exactly when loading is false
InputEnabled == ~loading

\* a second effect whose dependencies leave out manualAddress: an edit
\* of the input does not run it
EditManualWithoutEffect(text) ==
  /\ InputEnabled
  /\ text # manualAddress
  /\ manualAddress' = text
  /\ address' = address
  /\ last' = Event("EditManual", [address |-> address])
  /\ UNCHANGED <<endpoint, connected, walletAddress, alkanes, loading, error,
                 tokenImages, imageLoading, fetches, imageTasks>>
  /\ tokenList' = RenderTable(alkanes', loading', error')

\* onChange of the manual input; the second effect runs
EditManual(text) ==
  /\ InputEnabled
  /\ text # manualAddress
  /\ manualAddress' = text
  /\ address' = WalletEffect(connected, walletAddress, address, text)
  /\ last' = Event("EditManual", [address |-> address])
  /\ UNCHANGED <<endpoint, connected, walletAddress, alkanes, loading, error,
                 tokenImages, imageLoading, fetches, imageTasks>>
  /\ Rendered

\* onClick of "Try Again", shown while error is set
DismissError ==
  /\ error # null
  /\ error' = null
  /\ last' = Event("DismissError", [none |-> TRUE])
  /\ UNCHANGED <<endpoint, connected, walletAddress, address, manualAddress,
                 alkanes, loading, tokenImages, imageLoading, fetches, imageTasks>>
  /\ Rendered

\* a submit button without disabled={loading}
SubmitAlwaysEnabled == TRUE

\* the submit button is enabled exactly when loading is false
SubmitEnabled == ~loading

\* address || manualAddress
AddressToUseSearchFirst == IF address # "" THEN address ELSE manualAddress

\* manualAddress || address
AddressToUse == IF manualAddress # "" THEN manualAddress ELSE address

\* handleSubmit up to its await, or to its early return
handleSubmit ==
  /\ SubmitEnabled
  /\ tokenImages' = EmptyMap
  /\ imageLoading' = EmptyMap
  /\ IF AddressToUse = ""
     THEN /\ error' = "Please enter an address"
          /\ last' = Event("handleSubmit", [result |-> "missing", hadAlkanes |-> alkanes # <<>>])
          /\ UNCHANGED <<loading, alkanes, fetches>>
     ELSE IF ~isValidBitcoinAddress(AddressToUse)
     THEN /\ error' = "Please enter a valid Bitcoin address"
          /\ last' = Event("handleSubmit", [result |-> "invalid", hadAlkanes |-> alkanes # <<>>])
          /\ UNCHANGED <<loading, alkanes, fetches>>
     ELSE /\ Len(fetches) < MaxFetches
          /\ Len(imageTasks) < MaxTasks
          /\ error' = null
          /\ loading' = TRUE
          /\ alkanes' = <<>>
          /\ fetches' = Append(fetches, [address |-> AddressToUse, endpoint |-> endpoint,
                                         manualAddress |-> manualAddress])
          /\ last' = Event("handleSubmit", [result |-> "fetch", hadAlkanes |-> alkanes # <<>>])
  /\ UNCHANGED <<endpoint, connected, walletAddress, address, manualAddress,
                 imageTasks>>
  /\ Rendered

\* fetchTokenImages(tokens) up to its first await, called by the third effect
\* with the endpoint, tokenImages and imageLoading of the render it belongs to
fetchTokenImages(tokens, net, images, marks) ==
  LET j == NextFetch(tokens, 1, net, images)
      newImageLoading == Put(marks, CacheKey(net, tokens[j].tokenId.tx), TRUE)
  IN IF j = 0
     THEN UNCHANGED <<imageLoading, imageTasks>>
     ELSE /\ imageLoading' = newImageLoading
          /\ imageTasks' = Append(imageTasks,
                                  [tokens |-> tokens, i |-> j, endpoint |-> net,
                                   tokenImages |-> images,
                                   newImageLoading |-> newImageLoading])

\* result.balances || []: a field the SDK's result does not have
AlkanesOfWrongField(out) == <<>>

\* result.alkanes || []
AlkanesOf(out) == IF out.hasAlkanes THEN out.alkanes ELSE <<>>

\* a handleSubmit whose setLoading(false) ends the try block instead of
\* standing in finally
BalanceResolveWithoutFinally(i, out) ==
  /\ i \in 1..Len(fetches)
  /\ fetches' = RemoveAt(fetches, i)
  /\ loading' = IF out.kind = "success" THEN FALSE ELSE loading
  /\ last' = Event("BalanceResolve", [out |-> out, fetch |-> fetches[i],
                                      latest |-> (i = Len(fetches))])
  /\ IF out.kind = "success"
     THEN /\ alkanes' = AlkanesOf(out)
          /\ address' = fetches[i].address
          /\ error' = error
          /\ IF Len(AlkanesOf(out)) > 0
             THEN fetchTokenImages(AlkanesOf(out), endpoint, tokenImages, imageLoading)
             ELSE UNCHANGED <<imageLoading, imageTasks>>
     ELSE /\ error' = FetchErrorText(out.message)
          /\ alkanes' = <<>>
          /\ UNCHANGED <<address, imageLoading, imageTasks>>
  /\ UNCHANGED <<endpoint, connected, walletAddress, manualAddress, tokenImages>>
  /\ tokenList' = RenderTable(alkanes', loading', error')

\* the rest of handleSubmit when the i-th awaited getAlkanesByAddress settles
\* with out, and the effects of the state it sets
BalanceResolve(i, out) ==
  /\ i \in 1..Len(fetches)
  /\ fetches' = RemoveAt(fetches, i)
  /\ loading' = FALSE
  /\ last' = Event("BalanceResolve", [out |-> out, fetch |-> fetches[i],
                                      latest |-> (i = Len(fetches))])
  /\ IF out.kind = "success"
     THEN /\ alkanes' = AlkanesOf(out)
          /\ address' = fetches[i].address
          /\ error' = error
          /\ IF Len(AlkanesOf(out)) > 0
             THEN fetchTokenImages(AlkanesOf(out), endpoint, tokenImages, imageLoading)
             ELSE UNCHANGED <<imageLoading, imageTasks>>
     ELSE /\ error' = FetchErrorText(out.message)
          /\ alkanes' = <<>>
          /\ UNCHANGED <<address, imageLoading, imageTasks>>
  /\ UNCHANGED <<endpoint, connected, walletAddress, manualAddress, tokenImages>>
  /\ Rendered

\* a loop whose try/catch is around the whole for: a result that is not a
\* stored image ends the invocation
ImageResolveAbortsOnFailure(t, out) ==
  /\ t \in 1..Len(imageTasks)
  /\ LET task == imageTasks[t]
         token == task.tokens[task.i]
         cacheKey == CacheKey(task.endpoint, token.tokenId.tx)
         j == IF out = "success"
              THEN NextFetch(task.tokens, task.i + 1, task.endpoint, task.tokenImages)
              ELSE 0
         newImageLoading ==
           Put(task.newImageLoading, CacheKey(task.endpoint, task.tokens[j].tokenId.tx), TRUE)
     IN /\ tokenImages' = IF out = "success"
                          THEN Put(tokenImages, cacheKey, ImageUri(token.tokenId, task.endpoint))
                          ELSE tokenImages
        /\ IF j = 0
           THEN /\ imageLoading' = Put(imageLoading, cacheKey, FALSE)
                /\ imageTasks' = RemoveAt(imageTasks, t)
           ELSE /\ imageLoading' = newImageLoading
                /\ imageTasks' = [imageTasks EXCEPT ![t] =
                                    [task EXCEPT !.i = j, !.newImageLoading = newImageLoading]]
        /\ last' = [op |-> "ImageResolve", arg |-> [out |-> out, cacheKey |-> cacheKey]]
  /\ UNCHANGED <<endpoint, connected, walletAddress, address, manualAddress,
                 alkanes, loading, error, fetches>>
  /\ tokenList' = RenderTable(alkanes', loading', error')

\* the rest of one loop iteration of fetchTokenImages when the awaited
\* getAlkanesTokenImage of task t settles with out, and the loop up to its
\* next await or its end
ImageResolve(t, out) ==
  /\ t \in 1..Len(imageTasks)
  /\ LET task == imageTasks[t]
         token == task.tokens[task.i]
         cacheKey == CacheKey(task.endpoint, token.tokenId.tx)
         j == NextFetch(task.tokens, task.i + 1, task.endpoint, task.tokenImages)
         newImageLoading ==
           Put(task.newImageLoading, CacheKey(task.endpoint, task.tokens[j].tokenId.tx), TRUE)
     IN /\ tokenImages' = IF out = "success"
                          THEN Put(tokenImages, cacheKey, ImageUri(token.tokenId, task.endpoint))
                          ELSE tokenImages
        /\ IF j = 0
           THEN /\ imageLoading' = Put(imageLoading, cacheKey, FALSE)
                /\ imageTasks' = RemoveAt(imageTasks, t)
           ELSE /\ imageLoading' = newImageLoading
                /\ imageTasks' = [imageTasks EXCEPT ![t] =
                                    [task EXCEPT !.i = j, !.newImageLoading = newImageLoading]]
        /\ last' = Event("ImageResolve", [out |-> out, cacheKey |-> cacheKey])
  /\ UNCHANGED <<endpoint, connected, walletAddress, address, manualAddress,
                 alkanes, loading, error, fetches>>
  /\ Rendered

Next ==
  \/ \E n \in Networks : NetworkSwitch(n)
  \/ \E c \in BOOLEAN, w \in WalletAddresses : WalletUpdate(c, w)
  \/ \E text \in ManualInputs : EditManual(text)
  \/ DismissError
  \/ handleSubmit
  \/ \E i \in 1..MaxFetches, out \in BalanceOutcomes : BalanceResolve(i, out)
  \/ \E t \in 1..(MaxTasks + MaxFetches), out \in ImageOutcomes : ImageResolve(t, out)

Spec == Init /\ [][Next]_vars

-----------------------------------------------------------------------------
(* The aggregation on its own: the table rendered for any list of records *)

\* a second block/tx pair per token, and two pairs that differ in both
\* fields and join to the same id
TokenC == [block |-> "2:1", tx |-> "7"]
TokenD == [block |-> "2", tx |-> "1:7"]

\* records as any address may hold them: symbols given, absent and empty
AggRecords ==
  { Rec(id, d[1], d[2], d[3]) :
      id \in {NoTokenId, TokenA, TokenB, TokenC, TokenD},
      d \in { <<"ALPHA", "AL", 150000000>>, <<"BETA", undefined, 50000000>>,
              <<"GAMMA", "", 1>> } }

AggInputs == UNION { [1..n -> AggRecords] : n \in 0..MaxLen }

\* the page after a successful search that returned these records, before
\* the render that follows setAlkanes
InitAgg ==
  /\ endpoint = "mainnet"
  /\ connected = FALSE
  /\ walletAddress = ""
  /\ address = "bc1qcustom"
  /\ manualAddress = "bc1qcustom"
  /\ alkanes \in AggInputs
  /\ loading = FALSE
  /\ error = null
  /\ tokenImages = EmptyMap
  /\ imageLoading = EmptyMap
  /\ fetches = <<>>
  /\ imageTasks = <<>>
  /\ tokenList = <<>>
  /\ last = [op |-> "setAlkanes"]

\* the render of the results section (lines 512-538)
RenderResults ==
  /\ last.op = "setAlkanes"
  /\ last' = [op |-> "render"]
  /\ UNCHANGED <<endpoint, connected, walletAddress, address, manualAddress,
                 alkanes, loading, error, tokenImages, imageLoading, fetches,
                 imageTasks>>
  /\ Rendered

NextAgg == RenderResults

SpecAgg == InitAgg /\ [][NextAgg]_vars

-----------------------------------------------------------------------------
(* Searches of any typed address: the validation of handleSubmit on every  *)
(* short string over the characters the prefixes are made of               *)

\* the characters of the prefixes of isValidBitcoinAddress, and one more
AddressChars == {"b", "c", "r", "t", "m", "n", "1", "2", "3", "x"}

\* what the input's onChange can leave in manualAddress: the strings of at
\* most n characters
RECURSIVE Typed(_)
Typed(n) ==
  IF n = 0 THEN {""}
  ELSE LET shorter == Typed(n - 1)
       IN shorter \cup { s \o c : s \in shorter, c \in AddressChars }

\* getAlkanesByAddress for these addresses: an error status or a fault
TypedOutcomes ==
  [kind : {"error"}, hasAlkanes : {FALSE}, alkanes : {<<>>}, message : Messages]

\* the page after the user typed into the input, no wallet connected
InitAddr ==
  /\ endpoint = "mainnet"
  /\ connected = FALSE
  /\ walletAddress = ""
  /\ address = ""
  /\ manualAddress \in Typed(MaxAddrLen)
  /\ alkanes = <<>>
  /\ loading = FALSE
  /\ error = null
  /\ tokenImages = EmptyMap
  /\ imageLoading = EmptyMap
  /\ fetches = <<>>
  /\ imageTasks = <<>>
  /\ tokenList = <<>>
  /\ last = Event("EditManual", [address |-> ""])

NextAddr ==
  \/ handleSubmit
  \/ \E i \in 1..MaxFetches, out \in TypedOutcomes : BalanceResolve(i, out)

SpecAddr == InitAddr /\ [][NextAddr]_vars

-----------------------------------------------------------------------------
(* The image loop on its own: searches of one typed address whose result   *)
(* holds two tokens                                                        *)

\* a result with two tokens around a record without tokenId
TwoTokenList ==
  << Rec(TokenA, "ALPHA", "AL", 150000000), Rec(NoTokenId, "ANON", undefined, 5),
     Rec(TokenB, "BETA", undefined, 100000000) >>

\* the outcomes of awaiting getAlkanesByAddress for that address
TwoTokenOutcomes ==
  [kind : {"success"}, hasAlkanes : {TRUE}, alkanes : {TwoTokenList}, message : {undefined}]
  \cup [kind : {"error"}, hasAlkanes : {FALSE}, alkanes : {<<>>}, message : {undefined}]

\* the page after the user typed an address, no wallet connected
InitImg ==
  /\ endpoint \in Networks
  /\ connected = FALSE
  /\ walletAddress = ""
  /\ address = ""
  /\ manualAddress = "bc1qcustom"
  /\ alkanes = <<>>
  /\ loading = FALSE
  /\ error = null
  /\ tokenImages = EmptyMap
  /\ imageLoading = EmptyMap
  /\ fetches = <<>>
  /\ imageTasks = <<>>
  /\ tokenList = <<>>
  /\ last = Event("EditManual", [address |-> ""])

NextImg ==
  \/ \E n \in Networks : NetworkSwitch(n)
  \/ handleSubmit
  \/ \E i \in 1..MaxFetches, out \in TwoTokenOutcomes : BalanceResolve(i, out)
  \/ \E t \in 1..(MaxTasks + MaxFetches), out \in ImageOutcomes : ImageResolve(t, out)

SpecImg == InitImg /\ [][NextImg]_vars

-----------------------------------------------------------------------------
(* Progress of a session without a wallet: the typed address is edited,    *)
(* submitted, and every awaited balance fetch settles                      *)

NextLive ==
  \/ \E n \in Networks : NetworkSwitch(n)
  \/ \E text \in ManualInputs : EditManual(text)
  \/ DismissError
  \/ handleSubmit
  \/ \E i \in 1..MaxFetches, out \in BalanceOutcomes : BalanceResolve(i, out)
  \/ \E t \in 1..(MaxTasks + MaxFetches), out \in ImageOutcomes : ImageResolve(t, out)

\* a promise of getAlkanesByAddress that is pending is eventually fulfilled
\* or rejected, and the rest of handleSubmit then runs
SpecLive ==
  /\ InitImg
  /\ [][NextLive]_vars
  /\ WF_vars(\E i \in 1..MaxFetches, out \in BalanceOutcomes : BalanceResolve(i, out))

-----------------------------------------------------------------------------
(* Claims about the session state *)

\* the tx of every token getAlkanesByAddress may return
Txs ==
  UNION { { l[k].tokenId.tx : k \in { j \in 1..Len(l) : l[j].tokenId # NoTokenId } } :
          l \in BalanceLists }

\* C1: when a balance fetch that handleSubmit issued under another network
\* than the current one resolves, alkanes, error and address do not change.
C1_StaleBalanceDiscarded ==
  [][ (last'.op = "BalanceResolve" /\ last'.arg.fetch.endpoint # endpoint)
        => UNCHANGED <<alkanes, error, address>> ]_vars

\* C2: a step that changes the endpoint leaves alkanes empty, tokenImages
\* empty and error null, and does not change address nor manualAddress.
C2_NetworkSwitchResets ==
  [][ endpoint' # endpoint
        => /\ alkanes' = <<>>
           /\ tokenImages' = EmptyMap
           /\ error' = null
           /\ address' = address
           /\ manualAddress' = manualAddress ]_vars

\* a network switch has just cleared results, an error and images, and the
\* manual input still holds the user's text
C2_Witness ==
  /\ last.op = "NetworkSwitch"
  /\ last.arg.hadAlkanes /\ last.arg.hadError /\ last.arg.hadImages
  /\ manualAddress = "bc1qcustom"
  /\ alkanes = <<>> /\ error = null /\ tokenImages = EmptyMap

\* C3: a step that changes the wallet's connection state or address sets
\* address to the wallet's address exactly when address and manualAddress
\* are empty and the wallet is connected with an address, and otherwise
\* changes nothing of the session.
C3_WalletConnectRule ==
  [][ (connected' # connected \/ walletAddress' # walletAddress)
        => /\ address' = IF address = "" /\ manualAddress = "" /\ connected'
                            /\ walletAddress' # ""
                         THEN walletAddress' ELSE address
           /\ UNCHANGED <<endpoint, manualAddress, alkanes, loading, error,
                          tokenImages, imageLoading, fetches>> ]_vars

\* the wallet has just connected while both fields were empty, and address
\* took the wallet's address
C3_Witness ==
  /\ last.op = "WalletUpdate"
  /\ last.arg.address = ""
  /\ manualAddress = ""
  /\ connected
  /\ address = "tb1qwallet"

\* C4: after a submit that ends in an error (missing address, invalid
\* address, error status or fault of the fetch) loading is false and alkanes
\* is empty.
C4_FailedSearchClearsBalances ==
  ( \/ (last.op = "handleSubmit" /\ last.arg.result \in {"missing", "invalid"})
    \/ (last.op = "BalanceResolve" /\ last.arg.out.kind # "success") )
  => (~loading /\ alkanes = <<>>)

\* C5: a submit whose manualAddress-or-address is empty sets the
\* missing-address error, one whose manualAddress-or-address is not empty
\* and not a valid address sets the invalid-address error; neither issues a
\* fetch nor sets loading.
C5_SubmitValidation ==
  [][ LET addressToUse == IF manualAddress # "" THEN manualAddress ELSE address
      IN  last'.op = "handleSubmit"
            => /\ addressToUse = ""
                    => /\ error' = "Please enter an address"
                       /\ fetches' = fetches /\ ~loading'
               /\ (addressToUse # "" /\ ~isValidBitcoinAddress(addressToUse))
                    => /\ error' = "Please enter a valid Bitcoin address"
                       /\ fetches' = fetches /\ ~loading' ]_vars

\* a submit of an invalid manual address has just been refused although the
\* search address is a valid one
C5_Witness ==
  /\ last.op = "handleSubmit"
  /\ last.arg.result = "invalid"
  /\ manualAddress = "xyz123"
  /\ address = "tb1qwallet"
  /\ error = "Please enter a valid Bitcoin address"
  /\ fetches = <<>> /\ ~loading

\* C6: a submit that passes validation issues the fetch for its
\* manualAddress-or-address and the current endpoint, and when that fetch
\* returns success alkanes is the returned list (empty when none is
\* returned), address is the address fetched for, loading is false and
\* manualAddress is what it was at the submit.
C6_SubmitSuccess ==
  [][ /\ (last'.op = "handleSubmit" /\ last'.arg.result = "fetch")
          => /\ Len(fetches') = Len(fetches) + 1
             /\ fetches'[Len(fetches')] =
                  [address |-> IF manualAddress # "" THEN manualAddress ELSE address,
                   endpoint |-> endpoint, manualAddress |-> manualAddress]
      /\ (last'.op = "BalanceResolve" /\ last'.arg.out.kind = "success")
          => /\ alkanes' = IF last'.arg.out.hasAlkanes THEN last'.arg.out.alkanes ELSE <<>>
             /\ address' = last'.arg.fetch.address
             /\ ~loading'
             /\ manualAddress' = last'.arg.fetch.manualAddress ]_vars

\* a search for a manual address has just succeeded with records: address
\* is the manual address and the manual input still holds it
C6_Witness ==
  /\ last.op = "BalanceResolve"
  /\ last.arg.out.kind = "success"
  /\ last.arg.fetch.address = "bc1qcustom"
  /\ alkanes # <<>>
  /\ address = "bc1qcustom"
  /\ manualAddress = "bc1qcustom"
  /\ ~loading

\* C7: when the fetch of a submit returns status "error" or raises a fault,
\* error is the message given (the fallback text when none is given),
\* alkanes is empty, loading is false, and address is changed neither by
\* the submit nor by the resolution.
C7_SubmitFetchError ==
  [][ /\ last'.op = "handleSubmit" => address' = address
      /\ (last'.op = "BalanceResolve" /\ last'.arg.out.kind # "success")
          => /\ error' = IF last'.arg.out.message \in {undefined, ""}
                         THEN "Failed to fetch Alkanes data"
                         ELSE last'.arg.out.message
             /\ alkanes' = <<>>
             /\ ~loading'
             /\ address' = address ]_vars

\* a fetch for the manual address has just failed without a message: the
\* fallback text is shown and address is still the wallet's
C7_Witness ==
  /\ last.op = "BalanceResolve"
  /\ last.arg.out.kind = "error"
  /\ last.arg.out.message = undefined
  /\ last.arg.fetch.address = "bc1qcustom"
  /\ address = "tb1qwallet"
  /\ error = "Failed to fetch Alkanes data"
  /\ alkanes = <<>> /\ ~loading

\* C8: every key of tokenImages is a cache key of the current endpoint.
C8_ImageKeysOfCurrentNetwork ==
  \A key \in DOMAIN tokenImages : \E tx \in Txs : key = CacheKey(endpoint, tx)

\* C9: at most one balance fetch is in flight, the session is loading while
\* one is, no submit is accepted while loading, and the fetch whose result
\* is applied is the one issued last.
C9_NoOverlappingFetches ==
  /\ Len(fetches) <= 1
  /\ fetches # <<>> => loading
  /\ loading => ~ENABLED handleSubmit
  /\ last.op = "BalanceResolve" => last.arg.latest

\* a submit has just issued a fetch: the session is loading with that one
\* fetch in flight
C9_Witness ==
  /\ last.op = "handleSubmit"
  /\ last.arg.result = "fetch"
  /\ Len(fetches) = 1
  /\ loading

-----------------------------------------------------------------------------
(* Claims about the aggregation *)

\* the records that have a tokenId, in input order
RefKeyed(records) == SelectSeq(records, LAMBDA r : r.tokenId # NoTokenId)

\* the key of a record: block, separator, tx
RefKey(r) == r.tokenId.block \o ":" \o r.tokenId.tx

\* the sum of the amounts of the records among the first n that have the key
RECURSIVE RefSum(_, _, _)
RefSum(keyed, key, n) ==
  IF n = 0 THEN 0
  ELSE RefSum(keyed, key, n - 1)
         + (IF RefKey(keyed[n]) = key THEN keyed[n].amount ELSE 0)

\* out is the reference aggregation of records: one entry per distinct key in
\* first-occurrence order, name and symbol of the first record of the key
\* (the symbol through Sym), the amounts summed, amount = rawAmount / 10^8
RefMatches(out, records, Sym(_)) ==
  LET keyed == RefKeyed(records)
      firsts == { i \in 1..Len(keyed) :
                    \A j \in 1..(i - 1) : RefKey(keyed[j]) # RefKey(keyed[i]) }
  IN /\ Len(out) = Cardinality(firsts)
     /\ \A n \in 1..Len(out) :
          LET i == CHOOSE f \in firsts : Cardinality({ g \in firsts : g <= f }) = n
          IN /\ out[n].tokenId = keyed[i].tokenId
             /\ out[n].name = keyed[i].name
             /\ out[n].symbol = Sym(keyed[i].symbol)
             /\ out[n].rawAmount = RefSum(keyed, RefKey(keyed[i]), Len(keyed))
             /\ out[n].amount.e8 \in 0..(10^8 - 1)
             /\ out[n].amount.units * 10^8 + out[n].amount.e8 = out[n].rawAmount

\* the symbol rule as claimed: "-" when the symbol is absent
SymbolDashWhenAbsent(symbol) == IF symbol = undefined THEN "-" ELSE symbol

\* the symbol rule as amended: "-" when the symbol is absent or empty
SymbolDashWhenAbsentOrEmpty(symbol) ==
  IF symbol = undefined \/ symbol = "" THEN "-" ELSE symbol

\* C10 as claimed: the rendered rows are the reference aggregation of the
\* records, with symbol "-" when the first record's symbol is absent.
C10_AggregateAsClaimed ==
  last.op = "render" => RefMatches(tokenList, alkanes, SymbolDashWhenAbsent)

\* C10 as amended: the rendered rows are the reference aggregation of the
\* records (records without tokenId dropped, one row per distinct key in
\* first-occurrence order, amounts summed, name and symbol of the first
\* record, amount = rawAmount / 10^8), with symbol "-" when the first
\* record's symbol is absent or the empty string; no records give no rows.
C10_AggregateMatchesReference ==
  last.op = "render"
    => /\ RefMatches(tokenList, alkanes, SymbolDashWhenAbsentOrEmpty)
       /\ alkanes = <<>> => tokenList = <<>>

\* three records were rendered, two of one token around one without
\* tokenId: one row, the two amounts summed, the first record's empty
\* symbol shown as "-"
C10_Witness ==
  /\ last.op = "render"
  /\ Len(alkanes) = 3
  /\ alkanes[1].tokenId = TokenA /\ alkanes[1].symbol = "" /\ alkanes[1].amount = 1
  /\ alkanes[2].tokenId = NoTokenId
  /\ alkanes[3].tokenId = TokenA /\ alkanes[3].amount = 150000000
  /\ Len(tokenList) = 1
  /\ tokenList[1].rawAmount = 150000001
  /\ tokenList[1].amount = [units |-> 1, e8 |-> 50000001]
  /\ tokenList[1].name = "GAMMA"
  /\ tokenList[1].symbol = "-"

-----------------------------------------------------------------------------
(* Claims about the image loop *)

\* the positions after position i of a fetchTokenImages invocation whose
\* token has a tokenId and no image in the cache the invocation reads
RefStillToFetch(task) ==
  { j \in (task.i + 1)..Len(task.tokens) :
      /\ task.tokens[j].tokenId # NoTokenId
      /\ CacheKey(task.endpoint, task.tokens[j].tokenId.tx) \notin DOMAIN task.tokenImages }

\* C11: when the image fetch of a token returns an error status or raises a
\* fault, error and tokenImages do not change, and the invocation goes on
\* to fetch the next token that has a tokenId and no cached image (it ends
\* only when there is none); an image fetch that succeeds leaves its image
\* under the token's cache key.
C11_ImageFailureIsolated ==
  [][ last'.op = "ImageResolve"
        => /\ last'.arg.out # "success"
                => /\ error' = error
                   /\ tokenImages' = tokenImages
                   /\ \E t \in 1..Len(imageTasks) :
                        LET task == imageTasks[t]
                            rest == RefStillToFetch(task)
                        IN /\ CacheKey(task.endpoint, task.tokens[task.i].tokenId.tx)
                                = last'.arg.cacheKey
                           /\ IF rest = {}
                              THEN imageTasks' = RemoveAt(imageTasks, t)
                              ELSE /\ Len(imageTasks') = Len(imageTasks)
                                   /\ imageTasks'[t].i \in rest
                                   /\ \A j \in rest : imageTasks'[t].i <= j
           /\ last'.arg.out = "success"
                => /\ last'.arg.cacheKey \in DOMAIN tokenImages'
                   /\ tokenImages'[last'.arg.cacheKey] # "" ]_vars

\* the image of the second token has just been stored although the fetch
\* for the first token failed: the first has no entry, no error is shown
C11_Witness ==
  /\ last.op = "ImageResolve"
  /\ last.arg.out = "success"
  /\ last.arg.cacheKey = CacheKey(endpoint, TokenB.tx)
  /\ alkanes = TwoTokenList
  /\ CacheKey(endpoint, TokenB.tx) \in DOMAIN tokenImages
  /\ CacheKey(endpoint, TokenA.tx) \notin DOMAIN tokenImages
  /\ error = null

-----------------------------------------------------------------------------
(* Claims about progress *)

\* C12: when every balance fetch eventually settles, a session that is
\* loading is eventually not loading, and a session without a pending
\* balance fetch is never loading.
C12_SubmitReturnsToIdle ==
  /\ [](fetches = <<>> => ~loading)
  /\ loading ~> ~loading

\* a balance fetch has just ended in an error or a fault and left the
\* session idle with nothing pending
C12_Witness ==
  /\ last.op = "BalanceResolve"
  /\ last.arg.out.kind # "success"
  /\ ~loading
  /\ fetches = <<>>
  /\ SubmitEnabled

-----------------------------------------------------------------------------
(* Claims about the validation of addresses *)

\* the prefixes the validation is said to accept
RefPrefixes == {"bc1", "1", "3", "bcr", "tb1", "m", "n", "2"}

\* candidate is not empty and one of its beginnings is a listed prefix
RefValid(candidate) ==
  /\ Len(candidate) > 0
  /\ \E n \in 1..Len(candidate) : SubSeq(candidate, 1, n) \in RefPrefixes

\* C13: isValidBitcoinAddress accepts a candidate exactly when it is not
\* empty and begins with one of bc1, 1, 3, bcr, tb1, m, n, 2: a Submit of
\* the typed candidate starts a balance fetch in exactly that case, reports
\* an invalid address for every other non-empty candidate, and the function
\* agrees with the list on every candidate.
C13_ValidateAddressByPrefix ==
  /\ (isValidBitcoinAddress(manualAddress) <=> RefValid(manualAddress))
  /\ last.op = "handleSubmit"
       => /\ last.arg.result = "fetch" <=> RefValid(manualAddress)
          /\ last.arg.result = "invalid" <=> (manualAddress # "" /\ ~RefValid(manualAddress))
          /\ last.arg.result = "invalid" <=> error = "Please enter a valid Bitcoin address"

\* the regtest address bcr was submitted and accepted: its fetch is pending
C13_Witness ==
  /\ last.op = "handleSubmit"
  /\ manualAddress = "bcr"
  /\ last.arg.result = "fetch"
  /\ loading
  /\ error = null

-----------------------------------------------------------------------------
(* Claims about the identity of tokens in the aggregation *)

\* the tokenIds of the records that have one
TokenIdsOf(records) ==
  { records[k].tokenId : k \in { n \in 1..Len(records) : records[n].tokenId # NoTokenId } }

\* C14: the rendered rows merge two records exactly when their tokenIds
\* are equal in block and in tx: there is one row for every distinct
\* tokenId of the records, and every tokenId of the records is that of a row.
C14_MergeIffTokenIdsEqual ==
  last.op = "render"
    => /\ Len(tokenList) = Cardinality(TokenIdsOf(alkanes))
       /\ TokenIdsOf(alkanes) = { tokenList[n].tokenId : n \in 1..Len(tokenList) }

-----------------------------------------------------------------------------
(* Claims about the issue of image fetches *)

\* the cache key of the fetch a suspended fetchTokenImages is waiting for
KeyInFlight(task) == CacheKey(task.endpoint, task.tokens[task.i].tokenId.tx)

\* C15: an image fetch is never issued for a cache key that holds an image
\* or is marked loading: the fetch a balance load starts, and the fetch a
\* fetchTokenImages invocation goes on to after the one before it has
\* completed (its image stored and its marker cleared), is for a key
\* without an entry in tokenImages and without a true marker.
C15_NoFetchForCachedOrLoadingKey ==
  [][ /\ ( /\ last'.op = "BalanceResolve"
           /\ Len(imageTasks') = Len(imageTasks) + 1 )
        => LET key == KeyInFlight(imageTasks'[Len(imageTasks')])
           IN /\ key \notin DOMAIN tokenImages'
              /\ ~(key \in DOMAIN imageLoading /\ imageLoading[key])
      /\ ( /\ last'.op = "ImageResolve"
           /\ Len(imageTasks') = Len(imageTasks) )
        => \A t \in 1..Len(imageTasks) :
             imageTasks'[t] # imageTasks[t]
               => LET key == KeyInFlight(imageTasks'[t])
                      marks == Put(imageLoading, last'.arg.cacheKey, FALSE)
                  IN /\ key \notin DOMAIN tokenImages'
                     /\ ~marks[key] ]_vars


\* C16: a cache key is marked loading only while an image fetch for it is
\* awaited: a key whose fetch has completed carries no true marker until a
\* fetch for it is issued again, and when no image fetch is awaited no key
\* is marked loading.
C16_LoadingMarkersCleared ==
  \A key \in DOMAIN imageLoading :
    imageLoading[key] => \E t \in 1..Len(imageTasks) : KeyInFlight(imageTasks[t]) = key

-----------------------------------------------------------------------------
(* Claims about the keys of the image cache *)

\* the tokens whose images are fetched
RefTokens == {TokenA, TokenB}

\* C17: the cache key of an image holds the network of its request: the
\* entry of tokenImages under the key of network N and tx T is the image
\* that a fetch on network N returned for a token whose tx is T, every key
\* of tokenImages is the key of some network and tx, and the keys of one tx
\* on two networks differ.
C17_CacheKeyHoldsNetwork ==
  /\ \A N \in Networks, token \in RefTokens :
       CacheKey(N, token.tx) \in DOMAIN tokenImages
         => \E fetched \in RefTokens :
              /\ fetched.tx = token.tx
              /\ tokenImages[CacheKey(N, token.tx)] = ImageUri(fetched, N)
  /\ \A key \in DOMAIN tokenImages :
       \E N \in Networks, token \in RefTokens : key = CacheKey(N, token.tx)
  /\ \A N1 \in Networks, N2 \in Networks, token \in RefTokens :
       N1 # N2 => CacheKey(N1, token.tx) # CacheKey(N2, token.tx)

\* on testnet the images of both tokens are cached under testnet keys, and
\* the keys of the same tokens on mainnet have no entry
C17_Witness ==
  /\ last.op = "ImageResolve"
  /\ last.arg.out = "success"
  /\ endpoint = "testnet"
  /\ DOMAIN tokenImages = {CacheKey("testnet", TokenA.tx), CacheKey("testnet", TokenB.tx)}
  /\ tokenImages[CacheKey("testnet", TokenB.tx)] = ImageUri(TokenB, "testnet")
  /\ tokenImages[CacheKey("testnet", TokenA.tx)] = ImageUri(TokenA, "testnet")
  /\ CacheKey("mainnet", TokenB.tx) \notin DOMAIN tokenImages
  /\ CacheKey("mainnet", TokenA.tx) \notin DOMAIN tokenImages

-----------------------------------------------------------------------------
(* Claims about the wallet rule and the loading flag *)

\* C18: in every state in which the wallet is connected with an address,
\* address or manualAddress is not empty; after a wallet event or an edit
\* of the manual input that found address empty and leaves manualAddress
\* empty with the wallet connected, address is the wallet's address.
C18_WalletRuleReevaluated ==
  /\ (connected /\ walletAddress # "") => (address # "" \/ manualAddress # "")
  /\ ( /\ last.op \in {"WalletUpdate", "EditManual"}
       /\ last.arg.address = ""
       /\ manualAddress = ""
       /\ connected /\ walletAddress # "" )
     => address = walletAddress

\* the user has just emptied the manual input while address was empty and
\* the wallet was connected: address took the wallet's address
C18_Witness ==
  /\ last.op = "EditManual"
  /\ last.arg.address = ""
  /\ manualAddress = ""
  /\ connected
  /\ walletAddress = "tb1qwallet"
  /\ address = "tb1qwallet"


\* C19: loading is true exactly while a getAlkanesByAddress call that
\* handleSubmit issued is awaited, and a network switch, a wallet event, an
\* edit of the manual input, a dismissal of the error and the completion of
\* an image fetch leave loading as it was.
C19_LoadingIffFetchPending ==
  /\ [](loading <=> fetches # <<>>)
  /\ [][ last'.op \in {"NetworkSwitch", "WalletUpdate", "EditManual", "DismissError",
                       "ImageResolve"}
           => loading' = loading ]_vars
  /\ [][ loading' # loading => last'.op \in {"handleSubmit", "BalanceResolve"} ]_vars

\* the network was switched while a balance fetch was awaited: the session
\* is still loading
C19_Witness ==
  /\ last.op = "NetworkSwitch"
  /\ loading
  /\ Len(fetches) = 1
  /\ fetches[1].endpoint = last.arg.from

====
